---- MODULE Spec2Model ----
(***************************************************************************)
(* A model of src/src/geocoding.ts: the Geocoder class, its two provider   *)
(* adapters (Google Maps client, Nominatim over fetch) and the helper      *)
(* removeCountySuffix.                                                     *)
(*                                                                         *)
(* Conventions.                                                            *)
(*  - A JavaScript string is a sequence of fragments whose concatenation   *)
(*    is the string.  Strings that the code inspects character by          *)
(*    character (payload fields, addresses, numeric strings) are sequences *)
(*    of one-character fragments; literals of the source that are only     *)
(*    passed along are one fragment.  Str(s) wraps a string as a value.    *)
(*  - A JavaScript object is a function from its own keys to values; a     *)
(*    property read of a missing key yields undefined, which the model     *)
(*    expresses by the key not being in the DOMAIN.                        *)
(*  - null is the record NULL.                                             *)
(*  - Coordinates are integers; NaN is a reserved number.                  *)
(*  - The Google Maps client library is loaded (geocoding.ts:12-13, 65):   *)
(*    new google.maps.Geocoder() succeeds.                                 *)
(***************************************************************************)
EXTENDS Integers, Sequences, FiniteSets, TLC

VARIABLES
    pc,          \* where the instance / the running call stands
    arg,         \* the constructor's argument (kept for the record)
    thrown,      \* what the constructor threw, if it did
    address,     \* this.address
    location,    \* this.location
    op,          \* the public operation called last
    provider,    \* its provider argument
    forwardData, \* local of geocodeWithNominatim
    lat,         \* local of geocodeWithNominatim
    long,        \* local of geocodeWithNominatim
    pending,     \* the requests in flight
    requests,    \* the requests the running call has issued, in order
    reply,       \* what the collaborator answered last
    fault,       \* the I/O failure the collaborator produced for the call
    result,      \* how the promise of the last call settled
    county,      \* a string handed to removeCountySuffix on its own
    applied,     \* what removeCountySuffix returned for it, applied again and again
    other        \* a second call of the same instance, set aside at an await

geocoderVars == <<pc, arg, thrown, address, location, op, provider, forwardData,
                  lat, long, pending, requests, reply, fault, result>>

countyVars == <<county, applied>>

vars == <<geocoderVars, countyVars, other>>

----------------------------------------------------------------------------
(* Values *)

NULL == [null |-> TRUE]

Str(s) == [str |-> s]

NaN == -1000

\* new Error(message), or any instance of Error the platform throws
Error(message) == [isError |-> TRUE, message |-> message]

\* a thrown value that is no instance of Error
NonError(value) == [isError |-> FALSE, value |-> value]

Max(a, b) == IF a >= b THEN a ELSE b

----------------------------------------------------------------------------
(* String helpers of the platform, as the code uses them *)

\* String.prototype.endsWith
endsWith(s, suffix) ==
    /\ Len(s) >= Len(suffix)
    /\ SubSeq(s, Len(s) - Len(suffix) + 1, Len(s)) = suffix

\* String.prototype.slice(0, -n)
sliceEnd(s, n) == SubSeq(s, 1, Max(Len(s) - n, 0))

WhiteSpace == {" ", "\t", "\n"}

RECURSIVE trimStart(_)
trimStart(s) ==
    IF s # <<>> /\ Head(s) \in WhiteSpace THEN trimStart(Tail(s)) ELSE s

RECURSIVE trimEnd(_)
trimEnd(s) ==
    IF s # <<>> /\ s[Len(s)] \in WhiteSpace
    THEN trimEnd(SubSeq(s, 1, Len(s) - 1))
    ELSE s

\* String.prototype.trim
trim(s) == trimEnd(trimStart(s))

\* this.address.replace(/'/g, '')
sanitize(s) == SelectSeq(s, LAMBDA c : c # "'")

\* encodeURIComponent, on the characters the model's addresses use
encodeChar(c) ==
    CASE c = " " -> "%20"
      [] c = "," -> "%2C"
      [] OTHER   -> c

encodeURIComponent(s) == [i \in 1..Len(s) |-> encodeChar(s[i])]

DigitChars == <<"0", "1", "2", "3", "4", "5", "6", "7", "8", "9">>

DigitValue(c) == CHOOSE d \in 0..9 : DigitChars[d + 1] = c

IsDigit(c) == \E d \in 0..9 : DigitChars[d + 1] = c

RECURSIVE natToStr(_)
natToStr(n) ==
    IF n < 10 THEN <<DigitChars[n + 1]>>
    ELSE natToStr(n \div 10) \o <<DigitChars[(n % 10) + 1]>>

\* `${n}` for a number n
numToStr(n) ==
    IF n = NaN THEN <<"N", "a", "N">>
    ELSE IF n < 0 THEN <<"-">> \o natToStr(0 - n)
    ELSE natToStr(n)

\* the value of the longest prefix of digits of s, given the value so far
RECURSIVE digitsValue(_, _)
digitsValue(s, acc) ==
    IF s # <<>> /\ IsDigit(Head(s))
    THEN digitsValue(Tail(s), acc * 10 + DigitValue(Head(s)))
    ELSE acc

\* parseFloat of a string: leading white space, a sign, digits; else NaN
parseFloatStr(s) ==
    LET t    == trimStart(s)
        neg  == t # <<>> /\ Head(t) = "-"
        body == IF t # <<>> /\ Head(t) \in {"-", "+"} THEN Tail(t) ELSE t
    IN  IF body = <<>> \/ ~IsDigit(Head(body)) THEN NaN
        ELSE IF neg THEN 0 - digitsValue(body, 0)
        ELSE digitsValue(body, 0)

\* parseFloat(obj.key): a missing key reads undefined, which parses to NaN
parseFloat(obj, key) ==
    IF key \in DOMAIN obj THEN parseFloatStr(obj[key]) ELSE NaN

\* obj.key || ''
orEmpty(obj, key) == IF key \in DOMAIN obj THEN obj[key] ELSE <<>>

----------------------------------------------------------------------------
(* removeCountySuffix *)

COUNTY_SUFFIX == <<" ", "C", "o", "u", "n", "t", "y">>

\* the slice one character short: the space before County stays
removeCountyWord(name) ==
    IF endsWith(name, COUNTY_SUFFIX)
    THEN sliceEnd(name, Len(COUNTY_SUFFIX) - 1)
    ELSE name

removeCountySuffix(name) ==
    IF endsWith(name, COUNTY_SUFFIX)
    THEN sliceEnd(name, Len(COUNTY_SUFFIX))
    ELSE name

----------------------------------------------------------------------------
(* Settled promises and the values they carry *)

Fulfilled(v) == [state |-> "fulfilled", value |-> v]

Rejected(e) == [state |-> "rejected", value |-> e]

NotSettled == [state |-> "none", value |-> NULL]

IsString(v) == "str" \in DOMAIN v

IsGeocodeResult(v) == "nation" \in DOMAIN v

\* error instanceof Error ? error.message : 'Unknown error'
errorMessage(error) ==
    IF error.isError THEN error.message ELSE <<"Unknown error">>

\* the TypeError of a property read on undefined or null
TypeErrorMessage == <<"Cannot read properties of undefined">>

----------------------------------------------------------------------------
(* Geocoder.constructor *)

\* typeof addressOrLocation === 'string'
IsStringArg(a) == "str" \in DOMAIN a

\* the validation with && for ||: only an object with neither key is refused
ConstructorBothMissing(addressOrLocation) ==
    IF IsStringArg(addressOrLocation)
    THEN [threw    |-> FALSE,
          address  |-> Str(addressOrLocation.str),
          location |-> NULL,
          error    |-> NULL]
    ELSE IF /\ "lat" \notin DOMAIN addressOrLocation.obj
            /\ "long" \notin DOMAIN addressOrLocation.obj
    THEN [threw    |-> TRUE,
          address  |-> NULL,
          location |-> NULL,
          error    |-> Error(<<"Invalid location object: must contain lat and long properties">>)]
    ELSE [threw    |-> FALSE,
          address  |-> NULL,
          location |-> [k \in DOMAIN addressOrLocation.obj |->
                            addressOrLocation.obj[k]],
          error    |-> NULL]

\* this.address = '' for an object, where the code assigns null
ConstructorEmptyAddress(addressOrLocation) ==
    IF IsStringArg(addressOrLocation)
    THEN [threw    |-> FALSE,
          address  |-> Str(addressOrLocation.str),
          location |-> NULL,
          error    |-> NULL]
    ELSE IF \/ "lat" \notin DOMAIN addressOrLocation.obj
            \/ "long" \notin DOMAIN addressOrLocation.obj
    THEN [threw    |-> TRUE,
          address  |-> NULL,
          location |-> NULL,
          error    |-> Error(<<"Invalid location object: must contain lat and long properties">>)]
    ELSE [threw    |-> FALSE,
          address  |-> Str(<<>>),
          location |-> [lat  |-> addressOrLocation.obj.lat,
                        long |-> addressOrLocation.obj.long],
          error    |-> NULL]

Constructor(addressOrLocation) ==
    IF IsStringArg(addressOrLocation)
    THEN [threw    |-> FALSE,
          address  |-> Str(addressOrLocation.str),
          location |-> NULL,
          error    |-> NULL]
    ELSE IF \/ "lat" \notin DOMAIN addressOrLocation.obj
            \/ "long" \notin DOMAIN addressOrLocation.obj
    THEN [threw    |-> TRUE,
          address  |-> NULL,
          location |-> NULL,
          error    |-> Error(<<"Invalid location object: must contain lat and long properties">>)]
    ELSE [threw    |-> FALSE,
          address  |-> NULL,
          location |-> [lat  |-> addressOrLocation.obj.lat,
                        long |-> addressOrLocation.obj.long],
          error    |-> NULL]

\* !this.address : null and the empty string are falsy
NoAddress == address = NULL \/ address.str = <<>>

\* !this.location
NoLocation == location = NULL

----------------------------------------------------------------------------
(* Geocoder.geocode and Geocoder.reverseGeocode: the catch around the adapter *)

\* geocode without its try/catch
geocodeNoCatch(p, outcome) == outcome

geocodeCatch(p, outcome) ==
    IF outcome.state = "rejected"
    THEN Fulfilled(Str(<<"Forward Geocoding error with ", p, ": ">>
                       \o errorMessage(outcome.value)))
    ELSE outcome

reverseGeocodeCatch(p, outcome) ==
    IF outcome.state = "rejected"
    THEN Fulfilled(Str(<<"Reverse Geocoding error with ", p, ": ">>
                       \o errorMessage(outcome.value)))
    ELSE outcome

\* how the promise of the public operation o settles, given the adapter's
Settle(o, p, outcome) ==
    IF o = "geocode" THEN geocodeCatch(p, outcome)
    ELSE reverseGeocodeCatch(p, outcome)

IsReverse(o) == o = "reverseGeocode"

\* const operation = isReverse ? 'Reverse' : 'Forward'
Operation(isReverse) == IF isReverse THEN "Reverse" ELSE "Forward"

----------------------------------------------------------------------------
(* Geocoder.geocodeWithGoogle *)

\* the two mode-mismatch messages exchanged
googleRequestSwapped(isReverse) ==
    IF isReverse
    THEN IF NoLocation
         THEN [returned |-> TRUE,
               value |-> Str(<<"No address provided for forward geocoding">>)]
         ELSE [returned |-> FALSE,
               request  |-> [location |-> [lat |-> location.lat,
                                           lng |-> location.long]]]
    ELSE IF NoAddress
         THEN [returned |-> TRUE,
               value |-> Str(<<"No location coordinates provided for reverse geocoding">>)]
         ELSE [returned |-> FALSE,
               request  |-> [address |-> address.str]]

\* up to the await: the mode check and the request
googleRequest(isReverse) ==
    IF isReverse
    THEN IF NoLocation
         THEN [returned |-> TRUE,
               value |-> Str(<<"No location coordinates provided for reverse geocoding">>)]
         ELSE [returned |-> FALSE,
               request  |-> [location |-> [lat |-> location.lat,
                                           lng |-> location.long]]]
    ELSE IF NoAddress
         THEN [returned |-> TRUE,
               value |-> Str(<<"No address provided for forward geocoding">>)]
         ELSE [returned |-> FALSE,
               request  |-> [address |-> address.str]]

\* acc[type] = value
assign(acc, key, value) ==
    [k \in DOMAIN acc \cup {key} |-> IF k = key THEN value ELSE acc[k]]

\* comp.types.forEach((type) => (acc[type] = comp.long_name))
RECURSIVE forEachType(_, _, _)
forEachType(acc, types, long_name) ==
    IF types = <<>> THEN acc
    ELSE forEachType(assign(acc, Head(types), long_name), Tail(types), long_name)

\* results[0].address_components.reduce(..., {})
RECURSIVE reduceComponents(_, _)
reduceComponents(address_components, acc) ==
    IF address_components = <<>> THEN acc
    ELSE reduceComponents(
             Tail(address_components),
             forEachType(acc, Head(address_components).types,
                         Head(address_components).long_name))

\* `${components.street_number || ''} ${components.route || ''}`
googleStreet(components) ==
    orEmpty(components, "street_number") \o <<" ">> \o orEmpty(components, "route")

googleResult(first) ==
    LET components == reduceComponents(first.address_components, <<>>)
    IN  [nation      |-> orEmpty(components, "country"),
         province    |-> orEmpty(components, "administrative_area_level_1"),
         county      |-> removeCountySuffix(
                             orEmpty(components, "administrative_area_level_2")),
         town        |-> orEmpty(components, "locality"),
         borough     |-> orEmpty(components, "sublocality_level_1"),
         street      |-> googleStreet(components),
         zip         |-> orEmpty(components, "postal_code"),
         location    |-> [lat  |-> first.geometry.location.lat,
                          long |-> first.geometry.location.lng],
         rawResponse |-> first]

\* after the await: results is NULL or [list |-> <<...>>]; an array is truthy
geocodeWithGoogle(isReverse, results, status) ==
    IF status = "OK" /\ results # NULL
    THEN IF results.list = <<>>
         THEN Rejected(Error(TypeErrorMessage))  \* results[0].geometry
         ELSE Fulfilled(googleResult(results.list[1]))
    ELSE Fulfilled(Str(<<"Google ", Operation(isReverse),
                         " Geocoding failed: ", status>>))

----------------------------------------------------------------------------
(* Geocoder.geocodeWithNominatim *)

UNDEFINED == [undefined |-> TRUE]

JsonNull == [json |-> "null"]

JsonArray(items) == [json |-> "array", items |-> items]

JsonObject(fields) == [json |-> "object", fields |-> fields]

searchUrl(addr) ==
    [endpoint |-> "search", format |-> "json",
     q |-> encodeURIComponent(sanitize(addr))]

\* latitude and longitude exchanged in the query
reverseUrlSwapped(la, lo) ==
    [endpoint |-> "reverse", format |-> "json",
     lat |-> numToStr(lo), lon |-> numToStr(la)]

reverseUrl(la, lo) ==
    [endpoint |-> "reverse", format |-> "json",
     lat |-> numToStr(la), lon |-> numToStr(lo)]

\* response.ok
responseOk(status) == status \in 200..299

\* the adapter without its try/catch: the error goes to the caller
nominatimRethrow(isReverse, error) == Rejected(error)

\* the catch of the adapter
nominatimCatch(isReverse, error) ==
    Fulfilled(Str(<<"Nominatim ", Operation(isReverse), " Geocoding error: ">>
                  \o errorMessage(error)))

\* address.town || address.city || ''
nominatimTown(addr) ==
    IF orEmpty(addr, "town") # <<>> THEN addr.town ELSE orEmpty(addr, "city")

\* `${address.house_number || ''} ${address.road || ''}`.trim()
nominatimStreet(addr) ==
    trim(orEmpty(addr, "house_number") \o <<" ">> \o orEmpty(addr, "road"))

\* forwardData ? ... : ... , for null, undefined and parsed JSON
isTruthy(data) ==
    /\ data # NULL
    /\ data # UNDEFINED
    /\ data.json # "null"

\* rawResponse of a reverse call holding only the address object
nominatimResultRawAddress(reverseData, fwd) ==
    LET addr == IF "address" \in DOMAIN reverseData.fields
                THEN reverseData.fields.address
                ELSE <<>>
    IN  [nation      |-> orEmpty(addr, "country"),
         province    |-> orEmpty(addr, "state"),
         county      |-> removeCountySuffix(orEmpty(addr, "county")),
         town        |-> nominatimTown(addr),
         borough     |-> orEmpty(addr, "borough"),
         street      |-> nominatimStreet(addr),
         zip         |-> orEmpty(addr, "postcode"),
         location    |-> [lat  |-> parseFloat(reverseData.fields, "lat"),
                          long |-> parseFloat(reverseData.fields, "lon")],
         rawResponse |-> IF isTruthy(fwd) THEN fwd.items[1] ELSE JsonObject(addr)]

\* the object returned after the reverse lookup; reverseData is an object
nominatimResult(reverseData, fwd) ==
    LET addr == IF "address" \in DOMAIN reverseData.fields
                THEN reverseData.fields.address
                ELSE <<>>
    IN  [nation      |-> orEmpty(addr, "country"),
         province    |-> orEmpty(addr, "state"),
         county      |-> removeCountySuffix(orEmpty(addr, "county")),
         town        |-> nominatimTown(addr),
         borough     |-> orEmpty(addr, "borough"),
         street      |-> nominatimStreet(addr),
         zip         |-> orEmpty(addr, "postcode"),
         location    |-> [lat  |-> parseFloat(reverseData.fields, "lat"),
                          long |-> parseFloat(reverseData.fields, "lon")],
         rawResponse |-> IF isTruthy(fwd) THEN fwd.items[1] ELSE reverseData]

\* only !forwardData: an empty array counts as a result
noResultsNullOnly(body) == body.json = "null"

\* !forwardData || forwardData.length === 0
noResults(body) ==
    \/ body.json = "null"
    \/ body.json = "array" /\ body.items = <<>>

\* forwardData[0] is an object whose lat and lon can be read
hasFirstHit(body) ==
    /\ body.json = "array"
    /\ body.items # <<>>
    /\ body.items[1].json = "object"

----------------------------------------------------------------------------
(* What the callers and the collaborators can supply *)

Addresses ==
    { <<>>,
      <<"1", " ", "E", "l", "m">>,
      <<"O", "'", "k", ",", " ", "P", "A">> }

Coords == {38, -77}

LocationObjects == UNION {[S -> Coords] : S \in SUBSET {"lat", "long"}}

CtorArgs ==
    {Str(a) : a \in Addresses} \cup {[obj |-> o] : o \in LocationObjects}

Providers == {"google", "nominatim"}

\* the elements of seq at the indices in S, in order
RECURSIVE pick(_, _, _)
pick(seq, S, i) ==
    IF i > Len(seq) THEN <<>>
    ELSE (IF i \in S THEN <<seq[i]>> ELSE <<>>) \o pick(seq, S, i + 1)

ComponentPool ==
    << [long_name |-> <<"1", "2">>, types |-> <<"street_number">>],
       [long_name |-> <<"E", "l", "m", " ", "S", "t">>, types |-> <<"route">>],
       [long_name |-> <<"A", "y", "r">>, types |-> <<"locality", "political">>],
       [long_name |-> <<"S", "o", "h", "o">>,
        types |-> <<"sublocality_level_1", "sublocality", "political">>],
       [long_name |-> <<"K", "e", "n", "t">>,
        types |-> <<"administrative_area_level_2", "political">>],
       [long_name |-> <<"K", "e", "n", "t">> \o COUNTY_SUFFIX,
        types |-> <<"administrative_area_level_2", "political">>],
       [long_name |-> <<"V", "A">>,
        types |-> <<"administrative_area_level_1", "political">>],
       [long_name |-> <<"U", "S">>, types |-> <<"country", "political">>],
       [long_name |-> <<"2", "0", "5">>, types |-> <<"postal_code">>] >>

GoogleComponentLists ==
    {pick(ComponentPool, S, 1) : S \in SUBSET (1..Len(ComponentPool))}

FirstLocation == [lat |-> 38, lng |-> -77]

SecondLocation == [lat |-> -77, lng |-> 38]

GoogleResult(c, g) == [address_components |-> c, geometry |-> [location |-> g]]

OtherResult == GoogleResult(ComponentPool, [lat |-> 0, lng |-> 0])

GoogleResultLists ==
    {NULL, [list |-> <<>>]}
        \cup {[list |-> <<GoogleResult(c, FirstLocation)>>] :
                 c \in GoogleComponentLists}
        \cup {[list |-> <<GoogleResult(c, SecondLocation), OtherResult>>] :
                 c \in GoogleComponentLists}

GoogleStatuses == {"OK", "ZERO_RESULTS", "REQUEST_DENIED"}

\* OK with every result list; the other statuses with no list, an empty
\* list and a list of one result
GoogleResponses ==
    {[results |-> l, status |-> "OK"] : l \in GoogleResultLists}
        \cup [results : {NULL, [list |-> <<>>], [list |-> <<OtherResult>>]},
              status  : GoogleStatuses \ {"OK"}]

GoogleErrors == {Error(<<"InvalidValueError">>), NonError(<<"boom">>)}

HttpStatuses == {200, 404, 500}

\* fetch rejects with a TypeError, json() with a SyntaxError: both are Errors
FetchErrors == {Error(<<"Failed to fetch">>)}

JsonErrors == {Error(<<"Unexpected token < in JSON at position 0">>)}

Hits ==
    { [lat |-> <<"3", "8">>, lon |-> <<"-", "7", "7">>],
      [lat |-> <<"-", "7", "7">>, lon |-> <<"3", "8">>],
      [lon |-> <<"3", "8">>],
      <<>> }

OtherHit == [lat |-> <<"0">>, lon |-> <<"0">>]

SearchBodies ==
    {JsonNull, JsonArray(<<>>), JsonObject(<<>>), JsonArray(<<JsonNull>>)}
        \cup {JsonArray(<<JsonObject(h)>>) : h \in Hits}
        \cup {JsonArray(<<JsonObject(h), JsonObject(OtherHit)>>) : h \in Hits}

AddressPool ==
    [country      |-> <<"U", "S">>,
     state        |-> <<"V", "A">>,
     county       |-> <<"K", "e", "n", "t">> \o COUNTY_SUFFIX,
     town         |-> <<"A", "y", "r">>,
     city         |-> <<"O", "b", "a", "n">>,
     borough      |-> <<"S", "o", "h", "o">>,
     house_number |-> <<"1", "2">>,
     road         |-> <<"E", "l", "m", " ", "S", "t">>,
     postcode     |-> <<"2", "0", "5">>]

AddressMaps ==
    {[k \in S |-> AddressPool[k]] : S \in SUBSET (DOMAIN AddressPool)}
        \cup {[county |-> <<"K", "e", "n", "t">>],
              [town |-> <<>>, city |-> <<"O", "b", "a", "n">>],
              [house_number |-> <<>>, road |-> <<"E", "l", "m", " ", "S", "t">>]}

ReversePayloads ==
    {[address |-> a, lat |-> <<"3", "8">>, lon |-> <<"-", "7", "7">>] :
        a \in AddressMaps}
        \cup {[lat |-> <<"3", "8">>, lon |-> <<"-", "7", "7">>],
              [address |-> AddressPool],
              [error |-> <<"Unable to geocode">>]}

ReverseBodies == {JsonNull} \cup {JsonObject(f) : f \in ReversePayloads}

----------------------------------------------------------------------------
(* The state machine: one instance, its calls one after the other *)

NoReply == [from |-> "none"]

NoFault == [kind |-> "none"]

GeocoderInit ==
    /\ pc = "start"
    /\ arg = NULL
    /\ thrown = NULL
    /\ address = NULL
    /\ location = NULL
    /\ op = "none"
    /\ provider = "none"
    /\ forwardData = UNDEFINED
    /\ lat = UNDEFINED
    /\ long = UNDEFINED
    /\ pending = <<>>
    /\ requests = <<>>
    /\ reply = NoReply
    /\ fault = NoFault
    /\ result = NotSettled

\* a call that has not been made
NoCall ==
    [pc          |-> "idle",
     op          |-> "none",
     provider    |-> "none",
     forwardData |-> UNDEFINED,
     lat         |-> UNDEFINED,
     long        |-> UNDEFINED,
     pending     |-> <<>>,
     requests    |-> <<>>,
     reply       |-> NoReply,
     fault       |-> NoFault,
     result      |-> NotSettled]

Init ==
    /\ GeocoderInit
    /\ county = <<>>
    /\ applied = <<>>
    /\ other = NoCall

\* new Geocoder(a)
Construct(a) ==
    /\ pc = "start"
    /\ LET c == Constructor(a)
       IN  /\ pc' = IF c.threw THEN "ctor_failed" ELSE "idle"
           /\ thrown' = c.error
           /\ address' = c.address
           /\ location' = c.location
    /\ arg' = a
    /\ UNCHANGED <<op, provider, forwardData, lat, long, pending, requests,
                   reply, fault, result>>
    /\ UNCHANGED <<countyVars, other>>

\* the call runs geocodeWithGoogle up to its await
GoogleBegin(o, p) ==
    LET g == googleRequest(IsReverse(o))
    IN  /\ forwardData' = UNDEFINED
        /\ lat' = UNDEFINED
        /\ long' = UNDEFINED
        /\ IF g.returned
           THEN /\ pc' = "done"
                /\ result' = Settle(o, p, Fulfilled(g.value))
                /\ pending' = <<>>
                /\ requests' = <<>>
           ELSE /\ pc' = "google_wait"
                /\ result' = NotSettled
                /\ pending' = <<g.request>>
                /\ requests' = <<g.request>>

\* the call runs geocodeWithNominatim up to its first await
NominatimBegin(o, p) ==
    IF IsReverse(o)
    THEN IF NoLocation
         THEN /\ pc' = "done"
              /\ result' = Settle(o, p, Fulfilled(
                     Str(<<"No location coordinates provided for reverse geocoding">>)))
              /\ forwardData' = UNDEFINED
              /\ lat' = UNDEFINED
              /\ long' = UNDEFINED
              /\ pending' = <<>>
              /\ requests' = <<>>
         ELSE /\ pc' = "reverse_wait"
              /\ result' = NotSettled
              /\ forwardData' = NULL
              /\ lat' = location.lat
              /\ long' = location.long
              /\ pending' = <<reverseUrl(location.lat, location.long)>>
              /\ requests' = <<reverseUrl(location.lat, location.long)>>
    ELSE IF NoAddress
         THEN /\ pc' = "done"
              /\ result' = Settle(o, p, Fulfilled(
                     Str(<<"No address provided for forward geocoding">>)))
              /\ forwardData' = UNDEFINED
              /\ lat' = UNDEFINED
              /\ long' = UNDEFINED
              /\ pending' = <<>>
              /\ requests' = <<>>
         ELSE /\ pc' = "search_wait"
              /\ result' = NotSettled
              /\ forwardData' = UNDEFINED
              /\ lat' = UNDEFINED
              /\ long' = UNDEFINED
              /\ pending' = <<searchUrl(address.str)>>
              /\ requests' = <<searchUrl(address.str)>>

\* geocoder.geocode(provider)
Geocode(p) ==
    /\ pc \in {"idle", "done"}
    /\ op' = "geocode"
    /\ provider' = p
    /\ reply' = NoReply
    /\ fault' = NoFault
    /\ IF p = "google"
       THEN GoogleBegin("geocode", p)
       ELSE NominatimBegin("geocode", p)
    /\ UNCHANGED <<arg, thrown, address, location>>
    /\ UNCHANGED <<countyVars, other>>

\* geocoder.reverseGeocode(provider)
ReverseGeocode(p) ==
    /\ pc \in {"idle", "done"}
    /\ op' = "reverseGeocode"
    /\ provider' = p
    /\ reply' = NoReply
    /\ fault' = NoFault
    /\ IF p = "google"
       THEN GoogleBegin("reverseGeocode", p)
       ELSE NominatimBegin("reverseGeocode", p)
    /\ UNCHANGED <<arg, thrown, address, location>>
    /\ UNCHANGED <<countyVars, other>>

\* the call is over: its promise settles as the adapter's outcome decides
Finish(outcome) ==
    /\ pc' = "done"
    /\ result' = Settle(op, provider, outcome)
    /\ pending' = <<>>

\* the Google client calls back with (results, status)
GoogleCallback(response) ==
    /\ pc = "google_wait"
    /\ reply' = [from |-> "google", results |-> response.results,
                 status |-> response.status]
    /\ Finish(geocodeWithGoogle(IsReverse(op), response.results, response.status))
    /\ UNCHANGED <<arg, thrown, address, location, op, provider, forwardData,
                   lat, long, requests, fault>>
    /\ UNCHANGED <<countyVars, other>>

\* the Google client throws instead of calling back
GoogleThrows(e) ==
    /\ pc = "google_wait"
    /\ fault' = [kind |-> "client", step |-> "geocode", error |-> e]
    /\ Finish(Rejected(e))
    /\ UNCHANGED <<arg, thrown, address, location, op, provider, forwardData,
                   lat, long, requests, reply>>
    /\ UNCHANGED <<countyVars, other>>

\* fetch(nominatimUrl) or fetch(reverseUrl) rejects
FetchRejects(e) ==
    /\ pc \in {"search_wait", "reverse_wait"}
    /\ fault' = [kind |-> "network",
                 step |-> IF pc = "search_wait" THEN "search" ELSE "reverse",
                 error |-> e]
    /\ Finish(nominatimCatch(IsReverse(op), e))
    /\ UNCHANGED <<arg, thrown, address, location, op, provider, forwardData,
                   lat, long, requests, reply>>
    /\ UNCHANGED <<countyVars, other>>

\* fetch(nominatimUrl) resolves with a response of the given status
SearchResponse(status) ==
    /\ pc = "search_wait"
    /\ reply' = [from |-> "search", status |-> status]
    /\ IF ~responseOk(status)
       THEN /\ fault' = [kind |-> "status", step |-> "search", status |-> status]
            /\ Finish(nominatimCatch(IsReverse(op),
                   Error(<<"Forward geocoding failed: ">> \o numToStr(status))))
       ELSE /\ pc' = "search_json"
            /\ UNCHANGED <<fault, result, pending>>
    /\ UNCHANGED <<arg, thrown, address, location, op, provider, forwardData,
                   lat, long, requests>>
    /\ UNCHANGED <<countyVars, other>>

\* response.json() or reverseResponse.json() rejects
JsonRejects(e) ==
    /\ pc \in {"search_json", "reverse_json"}
    /\ fault' = [kind |-> "parse",
                 step |-> IF pc = "search_json" THEN "search" ELSE "reverse",
                 error |-> e]
    /\ Finish(nominatimCatch(IsReverse(op), e))
    /\ UNCHANGED <<arg, thrown, address, location, op, provider, forwardData,
                   lat, long, requests, reply>>
    /\ UNCHANGED <<countyVars, other>>

\* response.json() resolves with the parsed body of the search
SearchJson(body) ==
    /\ pc = "search_json"
    /\ reply' = [from |-> "search", status |-> reply.status, body |-> body]
    /\ forwardData' = body
    /\ IF noResults(body)
       THEN /\ Finish(Fulfilled(
                   Str(<<"Nominatim Forward Geocoding failed: No results found">>)))
            /\ UNCHANGED <<lat, long, requests>>
       ELSE IF ~hasFirstHit(body)
       THEN /\ Finish(nominatimCatch(IsReverse(op), Error(TypeErrorMessage)))
            /\ UNCHANGED <<lat, long, requests>>
       ELSE LET la == parseFloat(body.items[1].fields, "lat")
                lo == parseFloat(body.items[1].fields, "lon")
            IN  /\ lat' = la
                /\ long' = lo
                /\ pc' = "reverse_wait"
                /\ pending' = <<reverseUrl(la, lo)>>
                /\ requests' = Append(requests, reverseUrl(la, lo))
                /\ UNCHANGED result
    /\ UNCHANGED <<arg, thrown, address, location, op, provider, fault>>
    /\ UNCHANGED <<countyVars, other>>

\* fetch(reverseUrl) resolves with a response of the given status
ReverseResponse(status) ==
    /\ pc = "reverse_wait"
    /\ reply' = [from |-> "reverse", status |-> status]
    /\ IF ~responseOk(status)
       THEN /\ fault' = [kind |-> "status", step |-> "reverse", status |-> status]
            /\ Finish(nominatimCatch(IsReverse(op),
                   Error(<<"Reverse geocoding failed: ">> \o numToStr(status))))
       ELSE /\ pc' = "reverse_json"
            /\ UNCHANGED <<fault, result, pending>>
    /\ UNCHANGED <<arg, thrown, address, location, op, provider, forwardData,
                   lat, long, requests>>
    /\ UNCHANGED <<countyVars, other>>

\* reverseResponse.json() resolves with the parsed body of the reverse lookup
ReverseJson(body) ==
    /\ pc = "reverse_json"
    /\ reply' = [from |-> "reverse", status |-> reply.status, body |-> body]
    /\ IF body.json = "null"
       THEN Finish(nominatimCatch(IsReverse(op), Error(TypeErrorMessage)))
       ELSE Finish(Fulfilled(nominatimResult(body, forwardData)))
    /\ UNCHANGED <<arg, thrown, address, location, op, provider, forwardData,
                   lat, long, requests, fault>>
    /\ UNCHANGED <<countyVars, other>>

Next ==
    \/ \E a \in CtorArgs : Construct(a)
    \/ \E p \in Providers : Geocode(p)
    \/ \E p \in Providers : ReverseGeocode(p)
    \/ \E r \in GoogleResponses : GoogleCallback(r)
    \/ \E e \in GoogleErrors : GoogleThrows(e)
    \/ \E e \in FetchErrors : FetchRejects(e)
    \/ \E s \in HttpStatuses : SearchResponse(s)
    \/ \E e \in JsonErrors : JsonRejects(e)
    \/ \E b \in SearchBodies : SearchJson(b)
    \/ \E s \in HttpStatuses : ReverseResponse(s)
    \/ \E b \in ReverseBodies : ReverseJson(b)

Spec == Init /\ [][Next]_vars

----------------------------------------------------------------------------
(* Two calls of one instance at a time.  A call runs without interruption
   from one await to the next, so a state of the model is a point where the
   event loop may continue either call: Switch sets the running call aside
   and takes up the other one.  The collaborators answer from a few of
   their replies. *)

Switch ==
    /\ pc \notin {"start", "ctor_failed"}
    /\ other' = [pc          |-> pc,
                 op          |-> op,
                 provider    |-> provider,
                 forwardData |-> forwardData,
                 lat         |-> lat,
                 long        |-> long,
                 pending     |-> pending,
                 requests    |-> requests,
                 reply       |-> reply,
                 fault       |-> fault,
                 result      |-> result]
    /\ pc' = other.pc
    /\ op' = other.op
    /\ provider' = other.provider
    /\ forwardData' = other.forwardData
    /\ lat' = other.lat
    /\ long' = other.long
    /\ pending' = other.pending
    /\ requests' = other.requests
    /\ reply' = other.reply
    /\ fault' = other.fault
    /\ result' = other.result
    /\ UNCHANGED <<arg, thrown, address, location, countyVars>>

FullResult == GoogleResult(ComponentPool, FirstLocation)

SomeGoogleResponses ==
    {[results |-> [list |-> <<FullResult>>], status |-> "OK"],
     [results |-> [list |-> <<>>], status |-> "OK"],
     [results |-> NULL, status |-> "ZERO_RESULTS"]}

SomeSearchBodies ==
    {JsonArray(<<>>),
     JsonArray(<<JsonObject([lat |-> <<"3", "8">>, lon |-> <<"-", "7", "7">>])>>)}

SomeReverseBodies ==
    {JsonNull,
     JsonObject([address |-> AddressPool,
                 lat |-> <<"3", "8">>, lon |-> <<"-", "7", "7">>])}

NextInterleaved ==
    \/ \E a \in CtorArgs : Construct(a)
    \/ \E p \in Providers : Geocode(p)
    \/ \E p \in Providers : ReverseGeocode(p)
    \/ \E r \in SomeGoogleResponses : GoogleCallback(r)
    \/ \E e \in GoogleErrors : GoogleThrows(e)
    \/ \E e \in FetchErrors : FetchRejects(e)
    \/ \E st \in HttpStatuses : SearchResponse(st)
    \/ \E e \in JsonErrors : JsonRejects(e)
    \/ \E b \in SomeSearchBodies : SearchJson(b)
    \/ \E st \in HttpStatuses : ReverseResponse(st)
    \/ \E b \in SomeReverseBodies : ReverseJson(b)
    \/ Switch

SpecInterleaved == Init /\ [][NextInterleaved]_vars

----------------------------------------------------------------------------
(* removeCountySuffix on its own: a county string, and the function applied
   to it time after time *)

MaxSuffixes == 2

MaxApplications == 2

Stems ==
    { <<>>,
      <<"L", "o", "u", "d", "o", "u", "n">>,
      <<"C", "o", "u", "n", "t", "y">>,
      <<"K", "e", "n", "t", " ", "c", "o", "u", "n", "t", "y">>,
      <<"S", "t", " ">> }

Endings == { <<>>, <<" ">>, <<"s">>, <<" ", "C", "o", "u", "n", "t">> }

RECURSIVE repeat(_, _)
repeat(s, n) == IF n = 0 THEN <<>> ELSE s \o repeat(s, n - 1)

CountyInputs ==
    {stem \o repeat(COUNTY_SUFFIX, n) \o ending :
        stem \in Stems, n \in 0..MaxSuffixes, ending \in Endings}

CountyInit ==
    /\ GeocoderInit
    /\ county \in CountyInputs
    /\ applied = <<>>
    /\ other = NoCall

\* removeCountySuffix applied to the string, or to its own last result
Strip ==
    /\ Len(applied) < MaxApplications
    /\ applied' = Append(applied,
                         removeCountySuffix(IF applied = <<>>
                                            THEN county
                                            ELSE applied[Len(applied)]))
    /\ UNCHANGED <<county, geocoderVars, other>>

CountyNext == Strip

SpecCounty == CountyInit /\ [][CountyNext]_vars

----------------------------------------------------------------------------
(* Properties *)

AddressBuilt == pc \notin {"start", "ctor_failed"} /\ address # NULL

LocationBuilt == pc \notin {"start", "ctor_failed"} /\ location # NULL

HasLatAndLong(a) == ~IsStringArg(a) /\ {"lat", "long"} \subseteq DOMAIN a.obj

LacksLatOrLong(a) == ~IsStringArg(a) /\ ~({"lat", "long"} \subseteq DOMAIN a.obj)

\* C1: once the constructor has run, an argument that is a string or an
\* object with both lat and long has yielded an instance and nothing was
\* thrown; an object lacking lat or long has yielded no instance, and the
\* constructor threw an Error with the message "Invalid location object:
\* must contain lat and long properties" in that very step.
C1_ConstructorValidation ==
    pc # "start" =>
        /\ IsStringArg(arg) => pc # "ctor_failed" /\ thrown = NULL
        /\ HasLatAndLong(arg) => pc # "ctor_failed" /\ thrown = NULL
        /\ LacksLatOrLong(arg) =>
               /\ pc = "ctor_failed"
               /\ thrown = Error(<<"Invalid location object: must contain lat and long properties">>)

\* the test's case: an object with lat and no long was refused
C1_Witness == pc = "ctor_failed" /\ DOMAIN arg.obj = {"lat"}

\* C2: reverseGeocode on an address-built instance, with either provider,
\* is over at once and its promise is fulfilled with the string "No location
\* coordinates provided for reverse geocoding"; geocode on a location-built
\* instance likewise with "No address provided for forward geocoding".
C2_ModeMismatch ==
    /\ (AddressBuilt /\ op = "reverseGeocode") =>
           /\ pc = "done"
           /\ result = Fulfilled(
                  Str(<<"No location coordinates provided for reverse geocoding">>))
    /\ (LocationBuilt /\ op = "geocode") =>
           /\ pc = "done"
           /\ result = Fulfilled(Str(<<"No address provided for forward geocoding">>))

\* reverseGeocode("google") was called on an address-built instance
C2_Witness ==
    AddressBuilt /\ op = "reverseGeocode" /\ provider = "google" /\ pc = "done"

\* C3: the promise of a call never rejects, and a call that is over has
\* fulfilled it with a GeocodeResult or with a string, whatever the
\* collaborators did.
C3_NeverRejects ==
    /\ result.state # "rejected"
    /\ pc = "done" =>
           /\ result.state = "fulfilled"
           /\ IsString(result.value) \/ IsGeocodeResult(result.value)

\* geocode("google") is over after the Google client threw
C3_Witness ==
    pc = "done" /\ op = "geocode" /\ provider = "google" /\ fault.kind = "client"

Succeeded ==
    pc = "done" /\ result.state = "fulfilled" /\ IsGeocodeResult(result.value)

\* the Google client answered with no result to read
EmptyResults(results) == results = NULL \/ results.list = <<>>

\* C4: with provider google, when the client answered with a status other
\* than OK or with an empty result list, the promise is fulfilled with the
\* string "Google <Forward|Reverse> Geocoding failed: <status>" for the
\* direction of the call and the status of the answer.
C4_GoogleFailureString ==
    (/\ pc = "done"
     /\ reply.from = "google"
     /\ reply.status # "OK" \/ EmptyResults(reply.results)) =>
        result = Fulfilled(Str(<<"Google ",
                                 IF op = "geocode" THEN "Forward" ELSE "Reverse",
                                 " Geocoding failed: ",
                                 reply.status>>))

Range(f) == {f[x] : x \in DOMAIN f}

\* the type tags of the components of a Google result
GoogleTags(first) ==
    UNION {Range(first.address_components[i].types) :
               i \in DOMAIN first.address_components}

\* the source fields of each canonical field, by provider
GoogleSources ==
    [nation   |-> {"country"},
     province |-> {"administrative_area_level_1"},
     county   |-> {"administrative_area_level_2"},
     town     |-> {"locality"},
     borough  |-> {"sublocality_level_1"},
     street   |-> {"street_number", "route"},
     zip      |-> {"postal_code"}]

NominatimSources ==
    [nation   |-> {"country"},
     province |-> {"state"},
     county   |-> {"county"},
     town     |-> {"town", "city"},
     borough  |-> {"borough"},
     street   |-> {"house_number", "road"},
     zip      |-> {"postcode"}]

CanonicalFields == DOMAIN GoogleSources

\* the address object of the reverse lookup's payload, {} when it has none
ReplyAddress ==
    IF "address" \in DOMAIN reply.body.fields
    THEN reply.body.fields.address
    ELSE <<>>

\* the source fields the provider's payload of the finished call has
PresentSources ==
    IF provider = "google"
    THEN GoogleTags(result.value.rawResponse)
    ELSE DOMAIN ReplyAddress

\* C5: in a GeocodeResult of either provider each of the seven canonical
\* fields is a string, and a field none of whose source fields the payload
\* has is the empty string.
C5_MissingFieldsAreEmpty ==
    Succeeded =>
        \A f \in CanonicalFields :
            /\ result.value[f] \in Seq(STRING)
            /\ LET sources == IF provider = "google"
                              THEN GoogleSources[f]
                              ELSE NominatimSources[f]
               IN  (sources \cap PresentSources = {}) => result.value[f] = <<>>

\* C7: geocode("nominatim") on an address-built instance whose search
\* request was answered 2xx with an empty array is fulfilled with exactly
\* "Nominatim Forward Geocoding failed: No results found".
C7_NoResultsString ==
    (/\ pc = "done"
     /\ provider = "nominatim"
     /\ op = "geocode"
     /\ reply.from = "search"
     /\ "body" \in DOMAIN reply
     /\ reply.body = JsonArray(<<>>)) =>
        result = Fulfilled(
            Str(<<"Nominatim Forward Geocoding failed: No results found">>))

\* the search of a forward call was answered 200 with []
C7_Witness ==
    /\ pc = "done"
    /\ provider = "nominatim"
    /\ op = "geocode"
    /\ AddressBuilt
    /\ reply.from = "search"
    /\ "body" \in DOMAIN reply
    /\ reply.status = 200
    /\ reply.body = JsonArray(<<>>)

\* the house number and the road of the payload of the finished call,
\* '' when the payload has none
HouseNumber ==
    IF provider = "google"
    THEN orEmpty(reduceComponents(result.value.rawResponse.address_components, <<>>),
                 "street_number")
    ELSE orEmpty(ReplyAddress, "house_number")

Road ==
    IF provider = "google"
    THEN orEmpty(reduceComponents(result.value.rawResponse.address_components, <<>>),
                 "route")
    ELSE orEmpty(ReplyAddress, "road")

\* C8: in a GeocodeResult of either provider, street is the house number
\* and the road joined by one space, without leading or trailing space: the
\* road alone when there is no number, the number alone when there is no
\* road.
C8_StreetJoinedAndTrimmed ==
    Succeeded =>
        /\ result.value.street =
               IF HouseNumber = <<>> THEN Road
               ELSE IF Road = <<>> THEN HouseNumber
               ELSE HouseNumber \o <<" ">> \o Road
        /\ result.value.street # <<>> =>
               /\ Head(result.value.street) # " "
               /\ result.value.street[Len(result.value.street)] # " "

NominatimForward ==
    /\ provider = "nominatim"
    /\ op = "geocode"
    /\ pc \in {"search_wait", "search_json", "reverse_wait", "reverse_json", "done"}

\* the search has returned a first hit
FirstHitReceived ==
    /\ forwardData # UNDEFINED
    /\ forwardData # NULL
    /\ hasFirstHit(forwardData)

\* the reverse request for the coordinates of a search hit
ReverseRequestFor(hit) ==
    [endpoint |-> "reverse", format |-> "json",
     lat |-> numToStr(parseFloat(hit, "lat")),
     lon |-> numToStr(parseFloat(hit, "lon"))]

\* C9: never more than one request in flight. In a Nominatim forward
\* geocode: as soon as the search has returned a first hit, the call has
\* issued exactly the search request and then the reverse request for that
\* hit's coordinates; before that it has issued no reverse request; while
\* the search is awaited only the search is in flight, while the reverse
\* lookup is awaited only the reverse request; a GeocodeResult has taken
\* exactly the two requests search, reverse.
C9_SearchThenReverse ==
    /\ Len(pending) <= 1
    /\ NominatimForward =>
           /\ FirstHitReceived =>
                  /\ Len(requests) = 2
                  /\ requests[1].endpoint = "search"
                  /\ requests[2] = ReverseRequestFor(forwardData.items[1].fields)
           /\ ~FirstHitReceived =>
                  \A i \in DOMAIN requests : requests[i].endpoint = "search"
           /\ pc \in {"search_wait", "search_json"} =>
                  /\ ~FirstHitReceived
                  /\ Len(pending) = 1
                  /\ pending[1].endpoint = "search"
           /\ pc \in {"reverse_wait", "reverse_json"} =>
                  /\ FirstHitReceived
                  /\ pending = <<requests[2]>>
           /\ Succeeded =>
                  /\ Len(requests) = 2
                  /\ requests[1].endpoint = "search"
                  /\ requests[2].endpoint = "reverse"

\* a Nominatim forward geocode succeeded
C9_Witness == NominatimForward /\ Succeeded

\* C10: with provider nominatim, when fetch rejected, or answered a status
\* that is not 2xx, or the body failed to parse, in the search or in the
\* reverse step, the promise is fulfilled with "Nominatim <Forward|Reverse>
\* Geocoding error: <message>": the direction is that of the operation
\* called, the message that of the error (for a status, the step's
\* "<Forward|Reverse> geocoding failed: <status>").
C10_NominatimErrorString ==
    (/\ pc = "done"
     /\ provider = "nominatim"
     /\ fault.kind \in {"network", "status", "parse"}) =>
        result = Fulfilled(Str(
            <<"Nominatim ",
              IF op = "geocode" THEN "Forward" ELSE "Reverse",
              " Geocoding error: ">>
            \o (IF fault.kind = "status"
                THEN <<IF fault.step = "search"
                       THEN "Forward geocoding failed: "
                       ELSE "Reverse geocoding failed: ">>
                     \o numToStr(fault.status)
                ELSE fault.error.message)))

\* the reverse lookup of a forward call was answered with a failing status
C10_Witness ==
    /\ pc = "done"
    /\ provider = "nominatim"
    /\ op = "geocode"
    /\ fault.kind = "status"
    /\ fault.step = "reverse"

\* s is some string followed by " County"
HasCountySuffix(s) ==
    \E n \in 0..Len(s) : s = SubSeq(s, 1, n) \o COUNTY_SUFFIX

\* what the i-th application was applied to
Applicand(i) == IF i = 1 THEN county ELSE applied[i - 1]

\* one application takes exactly one trailing " County" away, or nothing
ExactAt(i) ==
    /\ HasCountySuffix(Applicand(i)) =>
           applied[i] \o COUNTY_SUFFIX = Applicand(i)
    /\ ~HasCountySuffix(Applicand(i)) => applied[i] = Applicand(i)

Loudoun == <<"L", "o", "u", "d", "o", "u", "n">>

\* C6 as the spec states it: stripping is idempotent, strip(strip(s)) =
\* strip(s) for every s, and exact: a string ending in " County" loses
\* exactly that suffix, any other string is returned unchanged.
C6_IdempotentAndExact ==
    /\ Len(applied) >= 1 => ExactAt(1)
    /\ Len(applied) >= 2 => applied[2] = applied[1]

\* C6, amended: every application of removeCountySuffix is exact (it takes
\* exactly one trailing " County" away, "Loudoun County" becomes "Loudoun",
\* and returns a string without the suffix unchanged), and strip(strip(s)) =
\* strip(s) for every s whose strip(s) does not itself end in " County".
C6_ExactAndIdempotentOnce ==
    /\ \A i \in DOMAIN applied : ExactAt(i)
    /\ (Len(applied) >= 1 /\ county = Loudoun \o COUNTY_SUFFIX) =>
           applied[1] = Loudoun
    /\ (Len(applied) >= 1 /\ county = Loudoun) => applied[1] = Loudoun
    /\ (Len(applied) >= 2 /\ ~HasCountySuffix(applied[1])) =>
           applied[2] = applied[1]

\* "Loudoun County" was stripped twice
C6_Witness ==
    /\ county = Loudoun \o COUNTY_SUFFIX
    /\ Len(applied) >= 2
    /\ applied[1] = Loudoun
    /\ applied[2] = Loudoun

NominatimReverse ==
    /\ provider = "nominatim"
    /\ op = "reverseGeocode"
    /\ LocationBuilt
    /\ pc \in {"reverse_wait", "reverse_json", "done"}

\* the decimal text of the coordinates the model's instances hold
CoordText(n) == IF n = 38 THEN <<"3", "8">> ELSE <<"-", "7", "7">>

\* C11: reverseGeocode("nominatim") on a location-built instance issues one
\* request in all, a reverse request (never a search) whose lat and lon are
\* the instance's lat and long, written out and read back without change;
\* the rawResponse of its GeocodeResult is the whole body of the reverse
\* lookup, while that of a forward geocode is the first hit of the search.
C11_ReverseOnly ==
    /\ NominatimReverse =>
           /\ Len(requests) = 1
           /\ requests[1].endpoint = "reverse"
           /\ requests[1].lat = CoordText(location.lat)
           /\ requests[1].lon = CoordText(location.long)
           /\ parseFloatStr(requests[1].lat) = location.lat
           /\ parseFloatStr(requests[1].lon) = location.long
           /\ Succeeded => result.value.rawResponse = reply.body
    /\ (NominatimForward /\ Succeeded) =>
           result.value.rawResponse = forwardData.items[1]

\* reverseGeocode("nominatim") succeeded for lat 38, long -77
C11_Witness ==
    /\ NominatimReverse
    /\ Succeeded
    /\ location = [lat |-> 38, long |-> -77]
    /\ "address" \in DOMAIN reply.body.fields

Constructed == pc \notin {"start", "ctor_failed"}

InFlight == {"google_wait", "search_wait", "search_json", "reverse_wait", "reverse_json"}

\* C12: a constructed instance has exactly one of address and location set
\* and the other null, and whatever calls have been made, finished or not,
\* one at a time or two at once, both fields hold what the constructor's
\* argument gave them: the string, or the object's lat and long.
C12_FieldsFixed ==
    Constructed =>
        /\ (address = NULL) # (location = NULL)
        /\ IsStringArg(arg) =>
               /\ address = Str(arg.str)
               /\ location = NULL
        /\ ~IsStringArg(arg) =>
               /\ address = NULL
               /\ location = [lat |-> arg.obj.lat, long |-> arg.obj.long]

\* a call of a location-built instance has succeeded while another call of
\* it, begun before, still awaits its collaborator
C12_Witness ==
    /\ LocationBuilt
    /\ Succeeded
    /\ other.pc \in InFlight
    /\ other.op # "none"

====
